---- MODULE Spec2Model ----
(***************************************************************************)
(* The smoke-test job of the CD manager (cd/manager/jobs/smoke.go): one    *)
(* job driven through its stages by repeated Advance calls, against a task *)
(* backend (LaunchTask / CheckTask) and a wall clock.                      *)
(*                                                                         *)
(* Time is counted in whole minutes.  A call to the backend takes between  *)
(* 0 and MaxCallDelay minutes, so the clock read at the top of Advance     *)
(* ("now") and the clock read after the backend has answered (the start    *)
(* time parameter, the timeout test) are different readings.               *)
(***************************************************************************)
EXTENDS Integers, Sequences, FiniteSets, TLC

\* ---------------------------------------------------------------- bounds
MaxClock == 18
MaxInitTs == 2
MaxCallDelay == 1

\* ------------------------------------------------------------- constants
\* const smokeTestFailureTime = 15 * time.Minute
smokeTestFailureTime == 15
\* manager.DefaultWaitTime, the "short default wait for start-up detection"
DefaultWaitTime == 5

JobStage_Queued == "queued"
JobStage_Dequeued == "dequeued"
JobStage_Started == "started"
JobStage_Waiting == "waiting"
JobStage_Delayed == "delayed"
JobStage_Skipped == "skipped"
JobStage_Failed == "failed"
JobStage_Canceled == "canceled"
JobStage_Completed == "completed"

JobStages ==
  { JobStage_Queued, JobStage_Dequeued, JobStage_Started, JobStage_Waiting,
    JobStage_Delayed, JobStage_Skipped, JobStage_Failed, JobStage_Canceled,
    JobStage_Completed }

JobParam_Id == "id"
JobParam_Start == "start"
JobParam_Error == "error"

Error_StartupTimeout == "startup timeout"
Error_CompletionTimeout == "completion timeout"
\* fmt.Errorf("smokeTestJob: unexpected state: %s", ...)
Error_UnexpectedState == "smokeTestJob: unexpected state"
Nil == "nil"

\* Answers of the task backend.
TaskIds == {"task-1", "task-2"}
LaunchErrors == {"launch failed"}
CheckErrors == {"check failed"}

\* ------------------------------------------------------------- job state
\* Params is a Go map: a function whose domain is the set of keys present.
EmptyParams == [k \in {} |-> Nil]

SetParam(p, k, v) == [x \in (DOMAIN p) \cup {k} |-> IF x = k THEN v ELSE p[x]]

HasParam(p, k) == k \in DOMAIN p

JobState(stage, ts, params) == [Stage |-> stage, Ts |-> ts, Params |-> params]

\* time.Time.UnixNano(): the instant as an integer count since the epoch.
\* The model keeps one integer scale (minutes) for instants and counts.
UnixNano(t) == t

\* ------------------------------------------------------- timeout policy
\* job.IsTimedOut(state, threshold), with t the clock it reads.
IsTimedOut(s, threshold, t) == (t - s.Ts) > threshold

\* --------------------------------------------------- transition primitive
\* baseJob.advance(stage, ts, err): next state, written through to the
\* database and forwarded once to the notifications.  re is the error value
\* the primitive hands back to its caller.  prior is the value it copied from:
\* s.state as the handler left it, whose Params map is the one every earlier
\* copy of the JobState struct refers to.
advance(s, stage, ts, err, re) ==
  LET p == IF err # Nil THEN SetParam(s.Params, JobParam_Error, err) ELSE s.Params
      n == JobState(stage, ts, p)
  IN [state |-> n, err |-> re, carried |-> err, path |-> "advance",
      persisted |-> <<n>>, sent |-> <<n>>, prior |-> s]

\* "return s.state, nil"
unchanged(s) ==
  [state |-> s, err |-> Nil, carried |-> Nil, path |-> "return",
   persisted |-> <<>>, sent |-> <<>>, prior |-> s]

\* ----------------------------------------------- variants of checkTests
\* The two thresholds exchanged.
checkTests_SwappedThresholds(s, expectedToBeRunning, ans, t) ==
  IF ans.err # Nil THEN [ok |-> FALSE, err |-> ans.err]
  ELSE IF ans.status THEN [ok |-> TRUE, err |-> Nil]
  ELSE IF expectedToBeRunning /\ IsTimedOut(s, smokeTestFailureTime, t)
    THEN [ok |-> FALSE, err |-> Error_StartupTimeout]
  ELSE IF ~expectedToBeRunning /\ IsTimedOut(s, DefaultWaitTime, t)
    THEN [ok |-> FALSE, err |-> Error_CompletionTimeout]
  ELSE [ok |-> FALSE, err |-> Nil]

\* The two timeout errors exchanged.
checkTests_SwappedErrors(s, expectedToBeRunning, ans, t) ==
  IF ans.err # Nil THEN [ok |-> FALSE, err |-> ans.err]
  ELSE IF ans.status THEN [ok |-> TRUE, err |-> Nil]
  ELSE IF expectedToBeRunning /\ IsTimedOut(s, DefaultWaitTime, t)
    THEN [ok |-> FALSE, err |-> Error_CompletionTimeout]
  ELSE IF ~expectedToBeRunning /\ IsTimedOut(s, smokeTestFailureTime, t)
    THEN [ok |-> FALSE, err |-> Error_StartupTimeout]
  ELSE [ok |-> FALSE, err |-> Nil]

\* The completion timeout left out.
checkTests_NoCompletionTimeout(s, expectedToBeRunning, ans, t) ==
  IF ans.err # Nil THEN [ok |-> FALSE, err |-> ans.err]
  ELSE IF ans.status THEN [ok |-> TRUE, err |-> Nil]
  ELSE IF expectedToBeRunning /\ IsTimedOut(s, DefaultWaitTime, t)
    THEN [ok |-> FALSE, err |-> Error_StartupTimeout]
  ELSE [ok |-> FALSE, err |-> Nil]

\* The timeout tested before the backend's status.
checkTests_TimeoutFirst(s, expectedToBeRunning, ans, t) ==
  IF ans.err # Nil THEN [ok |-> FALSE, err |-> ans.err]
  ELSE IF expectedToBeRunning /\ IsTimedOut(s, DefaultWaitTime, t)
    THEN [ok |-> FALSE, err |-> Error_StartupTimeout]
  ELSE IF ~expectedToBeRunning /\ IsTimedOut(s, smokeTestFailureTime, t)
    THEN [ok |-> FALSE, err |-> Error_CompletionTimeout]
  ELSE IF ans.status THEN [ok |-> TRUE, err |-> Nil]
  ELSE [ok |-> FALSE, err |-> Nil]

\* Exactly the threshold elapsed counted as timed out.
checkTests_Inclusive(s, expectedToBeRunning, ans, t) ==
  IF ans.err # Nil THEN [ok |-> FALSE, err |-> ans.err]
  ELSE IF ans.status THEN [ok |-> TRUE, err |-> Nil]
  ELSE IF expectedToBeRunning /\ (t - s.Ts) >= DefaultWaitTime
    THEN [ok |-> FALSE, err |-> Error_StartupTimeout]
  ELSE IF ~expectedToBeRunning /\ (t - s.Ts) >= smokeTestFailureTime
    THEN [ok |-> FALSE, err |-> Error_CompletionTimeout]
  ELSE [ok |-> FALSE, err |-> Nil]

\* The startup timeout left out.
checkTests_NoStartupTimeout(s, expectedToBeRunning, ans, t) ==
  IF ans.err # Nil THEN [ok |-> FALSE, err |-> ans.err]
  ELSE IF ans.status THEN [ok |-> TRUE, err |-> Nil]
  ELSE IF ~expectedToBeRunning /\ IsTimedOut(s, smokeTestFailureTime, t)
    THEN [ok |-> FALSE, err |-> Error_CompletionTimeout]
  ELSE [ok |-> FALSE, err |-> Nil]

\* ------------------------------------------------------------ checkTests
\* ans = [status, err] is what CheckTask answered, t the clock read by the
\* timeout test after it answered.  Result: [ok, err].
checkTests(s, expectedToBeRunning, ans, t) ==
  IF ans.err # Nil THEN [ok |-> FALSE, err |-> ans.err]
  ELSE IF ans.status THEN [ok |-> TRUE, err |-> Nil]
  ELSE IF expectedToBeRunning /\ IsTimedOut(s, DefaultWaitTime, t)
    THEN [ok |-> FALSE, err |-> Error_StartupTimeout]
  ELSE IF ~expectedToBeRunning /\ IsTimedOut(s, smokeTestFailureTime, t)
    THEN [ok |-> FALSE, err |-> Error_CompletionTimeout]
  ELSE [ok |-> FALSE, err |-> Nil]

\* The CheckTask call made by checkTests, as the backend sees it.
checkCall(s, expectedToBeRunning) ==
  [op |-> "CheckTask", id |-> s.Params[JobParam_Id], running |-> expectedToBeRunning]

launchCall == [op |-> "LaunchTask", id |-> "", running |-> FALSE]

\* -------------------------------------------- variants of the handlers
\* Queued -> Dequeued stamped with the call time.
AdvanceQueued_TsNow(s, now, re) ==
  advance(s, JobStage_Dequeued, now, Nil, re)

\* The task id and start time written before the launch error is looked at.
AdvanceDequeued_RecordFirst(s, now, ans, t, re) ==
  LET p1 == SetParam(s.Params, JobParam_Id, ans.id)
      p2 == SetParam(p1, JobParam_Start, UnixNano(t))
      s2 == [s EXCEPT !.Params = p2]
  IN IF ans.err # Nil
       THEN advance(s2, JobStage_Failed, now, ans.err, re)
       ELSE advance(s2, JobStage_Started, now, ans.err, re)

\* The start time taken from the clock reading made on entry.
AdvanceDequeued_StartNow(s, now, ans, t, re) ==
  IF ans.err # Nil
    THEN advance(s, JobStage_Failed, now, ans.err, re)
    ELSE LET p1 == SetParam(s.Params, JobParam_Id, ans.id)
             p2 == SetParam(p1, JobParam_Start, UnixNano(now))
         IN advance([s EXCEPT !.Params = p2], JobStage_Started, now, ans.err, re)

\* Transitions out of Started stamped with a clock read after the check.
AdvanceStarted_TsLate(s, now, ans, t, re) ==
  LET r == checkTests(s, TRUE, ans, t)
  IN IF r.err # Nil THEN advance(s, JobStage_Failed, t, r.err, re)
     ELSE IF r.ok THEN advance(s, JobStage_Waiting, t, Nil, re)
     ELSE unchanged(s)

\* The default case returning the state as it is.
AdvanceDefault_Unchanged(s, now, re) ==
  unchanged(s)

\* The stage set in place and returned, the transition primitive left out.
AdvanceQueued_NoPersist(s, now, re) ==
  [state |-> JobState(JobStage_Dequeued, s.Ts, s.Params), err |-> Nil,
   carried |-> Nil, path |-> "return", persisted |-> <<>>, sent |-> <<>>,
   prior |-> s]

\* The container name recorded where the task id belongs.
AdvanceDequeued_WrongId(s, now, ans, t, re) ==
  IF ans.err # Nil
    THEN advance(s, JobStage_Failed, now, ans.err, re)
    ELSE LET p1 == SetParam(s.Params, JobParam_Id, "ceramic-qa-tests-smoke")
             p2 == SetParam(p1, JobParam_Start, UnixNano(t))
         IN advance([s EXCEPT !.Params = p2], JobStage_Started, now, ans.err, re)

\* --------------------------------------------------------------- Advance
\* One operator per case of the switch in smokeTestJob.Advance.  now is the
\* clock read on entry, t the clock read after the backend call returned,
\* re the error value handed back by the transition primitive.

AdvanceQueued(s, now, re) ==
  advance(s, JobStage_Dequeued, s.Ts, Nil, re)

\* ans = [id, err] is what LaunchTask answered.
AdvanceDequeued(s, now, ans, t, re) ==
  IF ans.err # Nil
    THEN advance(s, JobStage_Failed, now, ans.err, re)
    ELSE LET p1 == SetParam(s.Params, JobParam_Id, ans.id)
             p2 == SetParam(p1, JobParam_Start, UnixNano(t))
         IN advance([s EXCEPT !.Params = p2], JobStage_Started, now, ans.err, re)

AdvanceStarted(s, now, ans, t, re) ==
  LET r == checkTests(s, TRUE, ans, t)
  IN IF r.err # Nil THEN advance(s, JobStage_Failed, now, r.err, re)
     ELSE IF r.ok THEN advance(s, JobStage_Waiting, now, Nil, re)
     ELSE unchanged(s)

AdvanceWaiting(s, now, ans, t, re) ==
  LET r == checkTests(s, FALSE, ans, t)
  IN IF r.err # Nil THEN advance(s, JobStage_Failed, now, r.err, re)
     ELSE IF r.ok THEN advance(s, JobStage_Completed, now, Nil, re)
     ELSE unchanged(s)

AdvanceDefault(s, now, re) ==
  advance(s, JobStage_Failed, now, Error_UnexpectedState, re)

\* =========================================================================
\* The notifications (cd/manager/notifs/discord.go) and the registry of jobs
\* they query.

JobType_Deploy == "deploy"
JobType_Anchor == "anchor"
JobType_TestE2E == "test_e2e"
JobType_TestSmoke == "test_smoke"

JobTypes == {JobType_Deploy, JobType_Anchor, JobType_TestE2E, JobType_TestSmoke}

EnvType_Dev == "dev"
EnvType_Qa == "qa"
EnvType_Prod == "prod"

EnvTypes == {EnvType_Dev, EnvType_Qa, EnvType_Prod}

\* The deploy components and the commit hashes the database holds for them.
DeployComponent_Ceramic == "ceramic"
DeployComponent_Cas == "cas"
DeployComponent_Ipfs == "ipfs"

DeployComponents ==
  {DeployComponent_Ceramic, DeployComponent_Cas, DeployComponent_Ipfs}

JobParam_Component == "component"
JobParam_Sha == "sha"

\* A commit hash, and what a Go map gives for a component it has no entry
\* for.
FullSha == "0123456789abcdef0123456789abcdef01234567"
NoSha == ""

Shas == {NoSha, FullSha}

\* manager.CommitHashRegex: what counts as a commit hash.
IsValidSha(sha) == sha = FullSha

\* The characters of a hash shown in a notification.
ShaShown == 12

\* The Params of a deploy job: the component and hash it was queued with.
DeployParams ==
  [k \in {JobParam_Component, JobParam_Sha} |->
     IF k = JobParam_Component THEN DeployComponent_Ceramic ELSE FullSha]

\* The Ids of the jobs, in the order a query lists them.
JobIds == <<"job-1", "job-2">>

RegIds == { JobIds[i] : i \in 1..Len(JobIds) }

\* A JobState as the registry and the notifications see it.
RegJobState(id, type, stage, ts) ==
  [Id |-> id, Type |-> type, Stage |-> stage, Ts |-> ts,
   Params |-> IF type = JobType_Deploy THEN DeployParams ELSE EmptyParams]

\* ------------------------------------------------------------ the registry
\* The registry: a function from the Ids registered to their JobState.
EmptyRegistry == [i \in {} |-> RegJobState("", "", "", 0)]

\* Keeps the entry an Id already has.
WriteJob_KeepFirst(r, js) ==
  [i \in (DOMAIN r) \cup {js.Id} |-> IF i \in DOMAIN r THEN r[i] ELSE js]

\* The refresh of the registry by a transition: last writer wins, per Id.
WriteJob(r, js) ==
  [i \in (DOMAIN r) \cup {js.Id} |-> IF i = js.Id THEN js ELSE r[i]]

\* manager.IsActiveJob: the stage is not a terminal one.
IsActiveJob(js) ==
  js.Stage \notin {JobStage_Failed, JobStage_Canceled, JobStage_Completed}

\* The predicates handed to JobsByMatcher, as data: m.kind tells which
\* func(js) bool it is.  "activeOfType" is the closure of
\* getActiveJobsByType.
Matches(m, js) ==
  CASE m.kind = "activeOfType" -> IsActiveJob(js) /\ (js.Type = m.type)
    [] m.kind = "id" -> js.Id = m.id
    [] m.kind = "notId" -> js.Id # m.id
    [] m.kind = "stage" -> js.Stage = m.stage
    [] OTHER -> TRUE

ActiveOfType(jobType) == [kind |-> "activeOfType", type |-> jobType]

\* Leaves out the jobs in the stage Waiting.
JobsByMatcher_NoWaiting(r, m) ==
  { r[i] : i \in { k \in DOMAIN r : Matches(m, r[k]) /\ r[k].Stage # JobStage_Waiting } }

\* cache.JobsByMatcher(matcher): the registered states the matcher accepts.
JobsByMatcher(r, m) ==
  { r[i] : i \in { k \in DOMAIN r : Matches(m, r[k]) } }

\* The jobs of a result of JobsByMatcher as the slice that is ranged over:
\* in the order of JobIds, from the i-th on.
RECURSIVE InOrder(_, _)
InOrder(S, i) ==
  IF i > Len(JobIds) THEN << >>
  ELSE LET here == { js \in S : js.Id = JobIds[i] }
       IN (IF here = {} THEN << >> ELSE <<CHOOSE js \in here : TRUE>>)
            \o InOrder(S, i + 1)

\* ------------------------------------------------------- the notification
\* fmt.Sprintf("%s (%s)\n", activeJob.Id, activeJob.Stage): one line of a field.
Line(js) == [Id |-> js.Id, Stage |-> js.Stage]

RECURSIVE Lines(_, _)
Lines(jobs, selfId) ==
  IF jobs = << >> THEN << >>
  ELSE (IF Head(jobs).Id # selfId THEN <<Line(Head(jobs))>> ELSE << >>)
         \o Lines(Tail(jobs), selfId)

\* The job the notification is for listed like the others.
getActiveJobsByType_NoExclusion(r, jobState, jobType) ==
  LET activeJobs == InOrder(JobsByMatcher(r, ActiveOfType(jobType)), 1)
      message == Lines(activeJobs, "")
  IN [field |-> [Name |-> jobType, Value |-> message], found |-> Len(message) > 0]

\* JobNotifs.getActiveJobsByType: the field of one job type, and whether it
\* has anything in it.
getActiveJobsByType(r, jobState, jobType) ==
  LET activeJobs == InOrder(JobsByMatcher(r, ActiveOfType(jobType)), 1)
      message == Lines(activeJobs, jobState.Id)
  IN [field |-> [Name |-> jobType, Value |-> message], found |-> Len(message) > 0]

\* JobNotifs.getActiveJobs: the fields of the four job types, in this order.
getActiveJobs(r, jobState) ==
  LET f(jobType) == LET g == getActiveJobsByType(r, jobState, jobType)
                    IN IF g.found THEN <<g.field>> ELSE << >>
  IN f(JobType_Deploy) \o f(JobType_Anchor) \o f(JobType_TestE2E)
       \o f(JobType_TestSmoke)

\* What db.GetDeployHashes() can answer: an error, or a hash or none for
\* each component.
HashAnswers ==
  { [err |-> "error", hashes |-> [c \in DeployComponents |-> NoSha]] } \cup
  { [err |-> Nil, hashes |-> h] : h \in [DeployComponents -> Shas] }

\* The answer of a database that holds a hash for every component.
FullAnswers ==
  { a \in HashAnswers :
      a.err = Nil /\ \A c \in DeployComponents : a.hashes[c] = FullSha }

\* JobNotifs.getComponentMsg: sha[:12] panics on a hash of fewer characters.
getComponentMsg(component, sha) ==
  IF Len(sha) < ShaShown
    THEN [panic |-> TRUE, msg |-> [repo |-> component, sha |-> NoSha]]
    ELSE [panic |-> FALSE,
          msg |-> [repo |-> component, sha |-> SubSeq(sha, 1, ShaShown)]]

\* JobNotifs.getDeployHashes: nothing if the database fails, else a message
\* per component, a deploy job's own valid hash replacing the stored one.
getDeployHashes(jobState, db) ==
  IF db.err # Nil THEN [panic |-> FALSE, value |-> << >>]
  ELSE
    LET commitHashes ==
          IF jobState.Type = JobType_Deploy
               /\ IsValidSha(jobState.Params[JobParam_Sha])
            THEN [db.hashes EXCEPT ![jobState.Params[JobParam_Component]] =
                                       jobState.Params[JobParam_Sha]]
            ELSE db.hashes
        ceramicMsg == getComponentMsg(DeployComponent_Ceramic,
                                      commitHashes[DeployComponent_Ceramic])
        casMsg == getComponentMsg(DeployComponent_Cas,
                                  commitHashes[DeployComponent_Cas])
        ipfsMsg == getComponentMsg(DeployComponent_Ipfs,
                                   commitHashes[DeployComponent_Ipfs])
    IN IF ceramicMsg.panic \/ casMsg.panic \/ ipfsMsg.panic
         THEN [panic |-> TRUE, value |-> << >>]
         ELSE [panic |-> FALSE, value |-> <<ceramicMsg.msg, casMsg.msg, ipfsMsg.msg>>]

NotifField_JobId == "Job ID"
NotifField_CommitHashes == "Commit Hashes"

\* JobNotifs.getNotifFields: the job id, the commit hashes if there are any,
\* then the jobs in progress.  (The time of day is left out.)
getNotifFields(r, jobState, db) ==
  LET commitHashes == getDeployHashes(jobState, db) IN
  [panic |-> commitHashes.panic,
   fields |->
     << [Name |-> NotifField_JobId, Value |-> <<jobState.Id>>] >>
     \o (IF Len(commitHashes.value) > 0
           THEN << [Name |-> NotifField_CommitHashes, Value |-> commitHashes.value] >>
           ELSE << >>)
     \o getActiveJobs(r, jobState)]

\* JobNotifs.getNotifChannels: the webhooks a notification goes to, nil ones
\* included.
getNotifChannels(n, jobState) ==
  (IF jobState.Type = JobType_Deploy
     THEN <<n.deploymentsWebhook>> \o
          (IF (n.env # EnvType_Dev) /\ (n.env # EnvType_Qa)
             THEN <<n.communityWebhook>> ELSE << >>)
     ELSE << >>)
  \o <<n.testWebhook>>

\* JobNotifs.sendNotif: one message to one channel; ok tells whether
\* CreateMessage succeeded.  A failure is logged and not returned.  (Title
\* and colour are left out.)
sendNotif(fields, channel, ok) ==
  [channel |-> channel, fields |-> fields, ok |-> ok]

\* The loop of NotifyJob over the channels from the i-th on: the messages
\* sent, and whether it ended in a panic.  oks[i] is the outcome of a send to
\* the i-th channel.  The fields are made anew for each channel that is set.
RECURSIVE SendFrom(_, _, _, _, _, _)
SendFrom(channels, r, jobState, db, oks, i) ==
  IF i > Len(channels) THEN [sent |-> << >>, panic |-> FALSE]
  ELSE IF channels[i] = Nil THEN SendFrom(channels, r, jobState, db, oks, i + 1)
  ELSE LET f == getNotifFields(r, jobState, db) IN
       IF f.panic THEN [sent |-> << >>, panic |-> TRUE]
       ELSE LET rest == SendFrom(channels, r, jobState, db, oks, i + 1)
            IN [sent |-> <<sendNotif(f.fields, channels[i], oks[i])>> \o rest.sent,
                panic |-> rest.panic]

\* JobNotifs.NotifyJob for one job state, with db what GetDeployHashes
\* answers during the call.
NotifyJob(n, jobState, r, db, oks) ==
  SendFrom(getNotifChannels(n, jobState), r, jobState, db, oks, 1)

\* --------------------------------------------------------------- the job
VARIABLES
  state,   \* s.state, the job's current JobState
  clock,   \* the wall clock (time.Now())
  pre,     \* s.state on entry to the Advance call that has just returned
  call,    \* what that call did and returned; call.returned = FALSE if the
           \* last step was not an Advance call
  entered, \* the clock read on entry to the Advance call that moved the job
           \* into its current stage; NotEntered while it is in the stage it
           \* was built with
  launches,    \* what LaunchTask answered, one entry per call, over the job's life
  transitions, \* number of calls of the transition primitive so far
  dbWrites,    \* number of states it wrote to the database
  forwarded,   \* number of states it handed to NotifyJob
  lastWritten, \* the last state written to the database
  notifs,      \* the JobNotifs value: env and the three webhooks (Nil if unset)
  registry,    \* the registry of jobs: the JobState registered for each Id
  recorded,    \* the last state the transition primitive recorded for each Id
  inflight,    \* per Id with a transition recorded and not yet notified: the
               \* new state, and whether the database write succeeded
  done         \* what the last step of the transition primitive did

jobVars == <<state, clock, pre, call, entered, launches>>

logVars == <<transitions, dbWrites, forwarded, lastWritten>>

regVars == <<notifs, registry, recorded, inflight, done>>

vars == <<jobVars, logVars, regVars>>

NotEntered == 0 - 1

NoAnswer == [status |-> FALSE, id |-> "", err |-> Nil]

NoCall ==
  [returned |-> FALSE, now |-> 0, t |-> 0, backend |-> <<>>, ans |-> NoAnswer,
   state |-> JobState(JobStage_Queued, 0, EmptyParams), err |-> Nil,
   carried |-> Nil, path |-> "return", persisted |-> <<>>, sent |-> <<>>,
   preEntered |-> NotEntered, seq |-> 0,
   prior |-> JobState(JobStage_Queued, 0, EmptyParams)]

\* The record of a returned call: the handler's result r plus its inputs.
\* e is the value of entered when the call was made, q a tag that tells two
\* successive calls apart where that matters.
Returned(r, now, t, backend, ans, e, q) ==
  [returned |-> TRUE, now |-> now, t |-> t, backend |-> backend, ans |-> ans,
   state |-> r.state, err |-> r.err, carried |-> r.carried, path |-> r.path,
   persisted |-> r.persisted, sent |-> r.sent, preEntered |-> e,
   seq |-> q,
   prior |-> r.prior]

\* Params a job in the given stage carries when it is handed to SmokeTestJob.
InitParams(stage, ts) ==
  IF stage \in {JobStage_Started, JobStage_Waiting, JobStage_Completed}
    THEN { SetParam(SetParam(EmptyParams, JobParam_Id, id), JobParam_Start, ts) :
             id \in TaskIds }
    ELSE IF stage = JobStage_Failed
      THEN { SetParam(EmptyParams, JobParam_Error, e) : e \in LaunchErrors }
      ELSE { EmptyParams }

\* The transition log of a job that has made no call yet: the database
\* holds the state the job was built from.
LogInit ==
  /\ transitions = 0
  /\ dbWrites = 0
  /\ forwarded = 0
  /\ lastWritten = state

\* The log as it stays where it is not kept.
NoLog ==
  /\ transitions = 0
  /\ dbWrites = 0
  /\ forwarded = 0
  /\ lastWritten = JobState(JobStage_Queued, 0, EmptyParams)

\* The launches a job built in state s has behind it: one, of the task whose
\* id its Params hold.
InitLaunches(s) ==
  IF HasParam(s.Params, JobParam_Id)
    THEN << [status |-> FALSE, id |-> s.Params[JobParam_Id], err |-> Nil] >>
    ELSE << >>

NoNotifs ==
  [env |-> EnvType_Dev, deploymentsWebhook |-> Nil, communityWebhook |-> Nil,
   testWebhook |-> Nil]

NoneDone ==
  [kind |-> "none", job |-> "", state |-> RegJobState("", "", "", 0),
   dbOk |-> TRUE, own |-> {}, channels |-> << >>, attempts |-> << >>,
   panic |-> FALSE, returns |-> FALSE,
   returned |-> RegJobState("", "", "", 0)]

\* No other job and no notification in sight.
NoRegistry ==
  /\ notifs = NoNotifs
  /\ registry = EmptyRegistry
  /\ recorded = EmptyRegistry
  /\ inflight = << >>
  /\ done = NoneDone

\* SmokeTestJob(jobState, db, notifs, d): the job is built around whatever
\* state it is given.
Init ==
  /\ \E stage \in JobStages, ts \in 0..MaxInitTs :
       \E p \in InitParams(stage, ts) : state = JobState(stage, ts, p)
  /\ clock \in 0..MaxInitTs
  /\ pre = state
  /\ call = NoCall
  /\ entered = NotEntered
  /\ launches = InitLaunches(state)
  /\ NoLog
  /\ NoRegistry

\* A job as the submission path creates it: Queued, no Params.
InitQueued ==
  /\ \E ts \in 0..MaxInitTs : state = JobState(JobStage_Queued, ts, EmptyParams)
  /\ clock \in 0..MaxInitTs
  /\ pre = state
  /\ call = NoCall
  /\ entered = NotEntered
  /\ launches = <<>>
  /\ NoLog
  /\ NoRegistry

\* A minute passes between two Advance calls.
Elapse ==
  /\ clock' = clock + 1
  /\ pre' = state
  /\ call' = NoCall
  /\ UNCHANGED <<state, entered, launches>>
  /\ UNCHANGED regVars

Tick ==
  /\ clock < MaxClock
  /\ Elapse
  /\ UNCHANGED logVars

LaunchAnswers ==
  { [status |-> FALSE, id |-> id, err |-> Nil] : id \in TaskIds } \cup
  { [status |-> FALSE, id |-> "", err |-> e] : e \in LaunchErrors }

CheckAnswers ==
  { [status |-> b, id |-> "", err |-> Nil] : b \in BOOLEAN } \cup
  { [status |-> FALSE, id |-> "", err |-> e] : e \in CheckErrors }

AdvanceReturns == {Nil, "error"}

Finish(r, now, t, backend, ans, q) ==
  /\ state' = r.state
  /\ clock' = t
  /\ pre' = state
  /\ call' = Returned(r, now, t, backend, ans, entered, q)
  /\ entered' = IF r.state.Stage # state.Stage THEN now ELSE entered
  /\ launches' = IF backend = <<launchCall>> THEN Append(launches, ans)
                                               ELSE launches
  /\ UNCHANGED regVars

\* smokeTestJob.Advance(), with backend calls that return no later than
\* limit; q tags the call.
AdvanceWithin(limit, q) ==
  \E re \in AdvanceReturns :
    LET now == clock IN
    CASE state.Stage = JobStage_Queued ->
           Finish(AdvanceQueued(state, now, re), now, now, <<>>, NoAnswer, q)
      [] state.Stage = JobStage_Dequeued ->
           \E ans \in LaunchAnswers, d \in 0..MaxCallDelay :
             /\ now + d <= limit
             /\ Finish(AdvanceDequeued(state, now, ans, now + d, re),
                       now, now + d, <<launchCall>>, ans, q)
      [] state.Stage = JobStage_Started ->
           \E ans \in CheckAnswers, d \in 0..MaxCallDelay :
             /\ now + d <= limit
             /\ Finish(AdvanceStarted(state, now, ans, now + d, re),
                       now, now + d, <<checkCall(state, TRUE)>>, ans, q)
      [] state.Stage = JobStage_Waiting ->
           \E ans \in CheckAnswers, d \in 0..MaxCallDelay :
             /\ now + d <= limit
             /\ Finish(AdvanceWaiting(state, now, ans, now + d, re),
                       now, now + d, <<checkCall(state, FALSE)>>, ans, q)
      [] OTHER ->
           Finish(AdvanceDefault(state, now, re), now, now, <<>>, NoAnswer, q)

Advance ==
  /\ AdvanceWithin(MaxClock, 0)
  /\ UNCHANGED logVars

Next == Tick \/ Advance

Spec == Init /\ [][Next]_vars

\* ---------------------------------------- a job created at Queued
QueuedSpec == InitQueued /\ [][Next]_vars

\* ------------------------------------------------- the transition log
MaxTransitions == 5

\* Advance, with what the transition primitive did added to the log.
LoggedAdvance ==
  /\ transitions < MaxTransitions
  /\ AdvanceWithin(MaxClock, 0)
  /\ transitions' = transitions + (IF call'.path = "advance" THEN 1 ELSE 0)
  /\ dbWrites' = dbWrites + Len(call'.persisted)
  /\ forwarded' = forwarded + Len(call'.sent)
  /\ lastWritten' = IF call'.persisted = <<>> THEN lastWritten
                     ELSE call'.persisted[Len(call'.persisted)]

LoggedNext == Tick \/ LoggedAdvance

\* Any job the constructor accepts, with the log kept from there on.
LoggedInit ==
  /\ \E stage \in JobStages, ts \in 0..MaxInitTs :
       \E p \in InitParams(stage, ts) : state = JobState(stage, ts, p)
  /\ clock \in 0..MaxInitTs
  /\ pre = state
  /\ call = NoCall
  /\ entered = NotEntered
  /\ launches = InitLaunches(state)
  /\ LogInit
  /\ NoRegistry

LoggedSpec == LoggedInit /\ [][LoggedNext]_vars

\* ------------------------------------------------ the driver never stops
\* A timeout is pending: the job waits on the backend and its timeout has
\* not yet been seen to elapse.
Pending ==
  \/ state.Stage = JobStage_Started /\ clock - state.Ts <= DefaultWaitTime
  \/ state.Stage = JobStage_Waiting /\ clock - state.Ts <= smokeTestFailureTime

\* The clock runs on past MaxClock for as long as a timeout is pending.
LiveTick ==
  /\ clock < MaxClock \/ Pending
  /\ Elapse
  /\ UNCHANGED logVars

LiveAdvance ==
  /\ AdvanceWithin(IF clock > MaxClock THEN clock ELSE MaxClock, 1 - call.seq)
  /\ UNCHANGED logVars

LiveNext == LiveTick \/ LiveAdvance

\* The driver keeps calling Advance and the clock keeps advancing.
LiveSpec ==
  InitQueued /\ [][LiveNext]_vars /\ WF_vars(LiveTick) /\ WF_vars(LiveAdvance)

\* ------------------------------------- many jobs, one registry, one notifier
MaxRegTs == 1

\* What the values of a webhook variable can make of it.
Webhooks(name) == {Nil, name}

\* NewJobNotifs: the environment and the three webhooks, each set or not.
NotifConfigs ==
  [env : EnvTypes, deploymentsWebhook : Webhooks("deployments"),
   communityWebhook : Webhooks("community"), testWebhook : Webhooks("test")]

\* The smoke test job left aside.
NoJob ==
  /\ state = JobState(JobStage_Queued, 0, EmptyParams)
  /\ clock = 0
  /\ pre = state
  /\ call = NoCall
  /\ entered = NotEntered
  /\ launches = << >>
  /\ NoLog

\* The notifiers with every webhook set.
FullConfigs ==
  { n \in NotifConfigs : /\ n.deploymentsWebhook # Nil
                         /\ n.communityWebhook # Nil
                         /\ n.testWebhook # Nil }

RegInit ==
  /\ NoJob
  /\ notifs \in FullConfigs
  /\ registry = EmptyRegistry
  /\ recorded = EmptyRegistry
  /\ inflight = << >>
  /\ done = NoneDone

\* The states a transition of job j can record: a new job is created Queued
\* with some type; a job keeps its Id and Type.
NewStates(j) ==
  IF j \in DOMAIN registry
    THEN { RegJobState(j, registry[j].Type, stage, ts) :
             stage \in JobStages, ts \in 0..MaxRegTs }
    ELSE { RegJobState(j, type, JobStage_Queued, ts) :
             type \in JobTypes, ts \in 0..MaxRegTs }

\* Steps (a) and (b) of the transition primitive for job j: the new state is
\* written through, to the database (with or without success) and to the
\* registry.  One transition per Id is in flight at a time.  dbOks holds the
\* outcomes the database write can have.
Record(j, dbOks) ==
  /\ j \notin DOMAIN inflight
  /\ \E js \in NewStates(j), dbOk \in dbOks :
       /\ registry' = WriteJob(registry, js)
       /\ recorded' = [i \in (DOMAIN recorded) \cup {j} |->
                         IF i = j THEN js ELSE recorded[i]]
       /\ inflight' = [i \in (DOMAIN inflight) \cup {j} |->
                         IF i = j THEN [state |-> js, dbOk |-> dbOk]
                                  ELSE inflight[i]]
       /\ done' = [NoneDone EXCEPT !.kind = "record", !.job = j, !.state = js,
                                   !.dbOk = dbOk]
  /\ UNCHANGED <<notifs, jobVars, logVars>>

\* The outcomes of the sends of one NotifyJob call to k channels, by
\* channel position, each of them one of sendOks.
SendOutcomes(k, sendOks) == [1..k -> sendOks]

\* Steps (c) and (d) for job j: NotifyJob(new state), which queries the
\* registry and the database (answering from dbAnswers) and sends (with an
\* outcome from sendOks), then the new state is returned -- unless NotifyJob
\* panicked.
Notify(j, dbAnswers, sendOks) ==
  /\ j \in DOMAIN inflight
  /\ LET js == inflight[j].state
         channels == getNotifChannels(notifs, js)
     IN \E oks \in SendOutcomes(Len(channels), sendOks), db \in dbAnswers :
          LET out == NotifyJob(notifs, js, registry, db, oks) IN
          done' = [NoneDone EXCEPT
                     !.kind = "notify", !.job = j, !.state = js,
                     !.dbOk = inflight[j].dbOk,
                     !.own = JobsByMatcher(registry, [kind |-> "id", id |-> j]),
                     !.channels = channels,
                     !.attempts = out.sent,
                     !.panic = out.panic,
                     !.returns = ~out.panic,
                     !.returned = IF out.panic THEN NoneDone.returned ELSE js]
  /\ inflight' = [i \in (DOMAIN inflight) \ {j} |-> inflight[i]]
  /\ UNCHANGED <<notifs, registry, recorded, jobVars, logVars>>

\* Many jobs at once; the database and the channels do not fail.
RegNext ==
  \E j \in RegIds : Record(j, {TRUE}) \/ Notify(j, FullAnswers, {TRUE})

RegSpec == RegInit /\ [][RegNext]_vars

\* ------------------------------------ one job, any notifier
NotifInit ==
  /\ NoJob
  /\ notifs \in NotifConfigs
  /\ registry = EmptyRegistry
  /\ recorded = EmptyRegistry
  /\ inflight = << >>
  /\ done = NoneDone

\* One job; the database and the channels fail in every way they can.
NotifNext ==
  Record(JobIds[1], BOOLEAN) \/ Notify(JobIds[1], HashAnswers, BOOLEAN)

NotifSpec == NotifInit /\ [][NotifNext]_vars

TypeOK ==
  /\ state.Stage \in JobStages
  /\ state.Ts \in 0..MaxClock
  /\ clock \in 0..MaxClock
  /\ call.returned \in BOOLEAN

\* ================================================================ claims
Did == call.returned

\* The backend answered without error, and negatively (not running when
\* asked whether the task runs, not stopped when asked whether it stopped).
AnsweredNo == call.ans.err = Nil /\ ~call.ans.status

AnsweredYes == call.ans.err = Nil /\ call.ans.status

Terminal == {JobStage_Failed, JobStage_Canceled, JobStage_Completed}

Handled == {JobStage_Queued, JobStage_Dequeued, JobStage_Started, JobStage_Waiting}

\* C1: an Advance call on a job whose Stage is Failed, Canceled or Completed
\* leaves Stage as it was before the call.
C1_TerminalIdempotence ==
  (Did /\ pre.Stage \in Terminal) => state.Stage = pre.Stage

\* C2: Advance on a Queued job makes no backend call and yields Dequeued
\* with the Ts of the Queued state, whatever the clock says.
C2_QueuedKeepsTs ==
  (Did /\ pre.Stage = JobStage_Queued) =>
    /\ state.Stage = JobStage_Dequeued
    /\ call.state = state
    /\ state.Ts = pre.Ts
    /\ call.backend = <<>>

C2_Witness ==
  /\ Did /\ pre.Stage = JobStage_Queued
  /\ call.now # pre.Ts
  /\ state.Stage = JobStage_Dequeued

\* C3: every Advance call that changes Stage, other than Queued -> Dequeued,
\* returns a state whose Ts is the clock value read on entry to that call.
C3_TsIsInvocationTime ==
  (Did /\ state.Stage # pre.Stage /\ pre.Stage # JobStage_Queued) =>
    /\ state.Ts = call.now
    /\ call.state = state

\* A transition out of Started whose backend call took time, so that the
\* clock on return differs from the clock on entry.
C3_Witness ==
  /\ Did /\ pre.Stage = JobStage_Started /\ state.Stage = JobStage_Waiting
  /\ call.t > call.now
  /\ call.now > pre.Ts

\* C4: Started with the backend answering not-running and the timeout test
\* seeing no more than the startup timeout elapsed, or Waiting with the
\* backend answering not-stopped and no more than the completion timeout
\* elapsed: Advance returns the input state and a nil error, writes nothing
\* to the database and sends no notification.
C4_NotReadyUnchanged ==
  ( /\ Did /\ AnsweredNo
    /\ \/ pre.Stage = JobStage_Started /\ call.t - pre.Ts <= DefaultWaitTime
       \/ pre.Stage = JobStage_Waiting /\ call.t - pre.Ts <= smokeTestFailureTime )
  =>
    /\ state = pre
    /\ call.state = pre
    /\ call.err = Nil
    /\ call.path = "return"
    /\ call.persisted = <<>>
    /\ call.sent = <<>>

\* Waiting, exactly the completion timeout elapsed.
C4_Witness ==
  /\ Did /\ AnsweredNo
  /\ pre.Stage = JobStage_Waiting
  /\ call.t - pre.Ts = smokeTestFailureTime
  /\ state = pre

\* C5: Started, the backend answering not-running without error, more than
\* the startup timeout elapsed: Advance moves the job to Failed with the
\* StartupTimeout error, never the CompletionTimeout error.
C5_StartupTimeout ==
  (Did /\ AnsweredNo /\ pre.Stage = JobStage_Started
       /\ call.t - pre.Ts > DefaultWaitTime) =>
    /\ state.Stage = JobStage_Failed
    /\ call.carried = Error_StartupTimeout
    /\ call.carried # Error_CompletionTimeout
    /\ HasParam(state.Params, JobParam_Error)
    /\ state.Params[JobParam_Error] = Error_StartupTimeout

\* One minute past the startup timeout, measured on entry to the call.
C5_Witness ==
  /\ Did /\ AnsweredNo /\ pre.Stage = JobStage_Started
  /\ call.now - pre.Ts = DefaultWaitTime + 1
  /\ state.Stage = JobStage_Failed

\* C6: Waiting, the backend answering still-running without error, more than
\* the completion timeout elapsed since Ts: Advance moves the job to Failed
\* with the CompletionTimeout error; and the Ts of a job that was moved into
\* Waiting is the time of the call that moved it there, so that time spent
\* in earlier stages is not counted.
C6_CompletionTimeout ==
  /\ (Did /\ AnsweredNo /\ pre.Stage = JobStage_Waiting
          /\ call.t - pre.Ts > smokeTestFailureTime) =>
       /\ state.Stage = JobStage_Failed
       /\ call.carried = Error_CompletionTimeout
       /\ HasParam(state.Params, JobParam_Error)
       /\ state.Params[JobParam_Error] = Error_CompletionTimeout
  /\ (state.Stage = JobStage_Waiting /\ entered # NotEntered) =>
       state.Ts = entered
  /\ (Did /\ pre.Stage = JobStage_Waiting /\ call.preEntered # NotEntered) =>
       pre.Ts = call.preEntered

\* A job that was moved into Waiting after it had spent time in Started, and
\* timed out one minute past the completion timeout counted from then.
C6_Witness ==
  /\ Did /\ AnsweredNo /\ pre.Stage = JobStage_Waiting
  /\ call.preEntered >= 1
  /\ call.now - call.preEntered = smokeTestFailureTime + 1
  /\ call.carried = Error_CompletionTimeout

\* C7 as stated: Dequeued and LaunchTask succeeding with task id t gives
\* Stage Started, Params[id] = t and Params[start] equal to the clock value
\* read on entry, the one written to Ts.
C7_StartIsInvocationTime ==
  (Did /\ pre.Stage = JobStage_Dequeued /\ call.ans.err = Nil) =>
    /\ state.Stage = JobStage_Started
    /\ state.Params[JobParam_Id] = call.ans.id
    /\ state.Ts = call.now
    /\ state.Params[JobParam_Start] = call.now

\* C7 amended: Dequeued and LaunchTask succeeding with task id t gives Stage
\* Started, Ts the clock value read on entry, Params[id] = t, and
\* Params[start] a second clock reading made after LaunchTask returned,
\* never earlier than Ts.
C7_StartIsSecondReading ==
  (Did /\ pre.Stage = JobStage_Dequeued /\ call.ans.err = Nil) =>
    /\ state.Stage = JobStage_Started
    /\ call.state = state
    /\ HasParam(state.Params, JobParam_Id)
    /\ state.Params[JobParam_Id] = call.ans.id
    /\ state.Ts = call.now
    /\ HasParam(state.Params, JobParam_Start)
    /\ state.Params[JobParam_Start] = call.t
    /\ state.Params[JobParam_Start] >= state.Ts

C7_Witness ==
  /\ Did /\ pre.Stage = JobStage_Dequeued /\ call.ans.err = Nil
  /\ state.Stage = JobStage_Started
  /\ state.Params[JobParam_Start] > state.Ts

\* C8: an error from LaunchTask (Dequeued) or CheckTask (Started, Waiting)
\* moves the job to Failed in that call, carrying that error, after a single
\* backend call, whether or not the stage's timeout has elapsed; after a
\* launch failure Params holds no task id and no start time.
C8_BackendErrorFails ==
  (Did /\ pre.Stage \in {JobStage_Dequeued, JobStage_Started, JobStage_Waiting}
       /\ call.ans.err # Nil) =>
    /\ state.Stage = JobStage_Failed
    /\ call.state = state
    /\ call.carried = call.ans.err
    /\ HasParam(state.Params, JobParam_Error)
    /\ state.Params[JobParam_Error] = call.ans.err
    /\ Len(call.backend) = 1
    /\ pre.Stage = JobStage_Dequeued =>
         /\ ~HasParam(state.Params, JobParam_Id)
         /\ ~HasParam(state.Params, JobParam_Start)

\* A launch failure.
C8_Witness ==
  /\ Did /\ pre.Stage = JobStage_Dequeued /\ call.ans.err \in LaunchErrors
  /\ state.Stage = JobStage_Failed

\* A check failure inside the timeout and one past it.
C8_WitnessInTime ==
  /\ Did /\ pre.Stage = JobStage_Started /\ call.ans.err \in CheckErrors
  /\ call.t - pre.Ts <= DefaultWaitTime
  /\ state.Stage = JobStage_Failed

\* C9: Started and the backend answering running gives Waiting, Waiting and
\* the backend answering stopped gives Completed, also when more than the
\* stage's timeout has elapsed.
C9_PositiveAnswerWins ==
  /\ (Did /\ AnsweredYes /\ pre.Stage = JobStage_Started) =>
       state.Stage = JobStage_Waiting
  /\ (Did /\ AnsweredYes /\ pre.Stage = JobStage_Waiting) =>
       state.Stage = JobStage_Completed

\* Completed after the completion timeout had already elapsed on entry.
C9_Witness ==
  /\ Did /\ AnsweredYes /\ pre.Stage = JobStage_Waiting
  /\ call.now - pre.Ts > smokeTestFailureTime
  /\ state.Stage = JobStage_Completed

\* C10: Advance on a job whose Stage is none of Queued, Dequeued, Started,
\* Waiting makes no backend call and moves the job to Failed with the
\* "unexpected state" error and Ts the clock value read on entry.
C10_UnexpectedState ==
  (Did /\ pre.Stage \notin Handled) =>
    /\ state.Stage = JobStage_Failed
    /\ call.state = state
    /\ call.carried = Error_UnexpectedState
    /\ HasParam(state.Params, JobParam_Error)
    /\ state.Params[JobParam_Error] = Error_UnexpectedState
    /\ call.backend = <<>>
    /\ state.Ts = call.now

C10_Witness ==
  /\ Did /\ pre.Stage \in {JobStage_Delayed, JobStage_Skipped}
  /\ call.now # pre.Ts
  /\ state.Stage = JobStage_Failed

\* Thresholds the timeout policy is tried with.
MaxThreshold == 16

Thresholds == 0..MaxThreshold

\* C11: IsTimedOut(state, threshold) is (now - state.Ts) > threshold: false
\* when exactly the threshold has elapsed, true for every smaller threshold
\* once true for one, false for negative elapsed time, and the same whatever
\* the Stage and Params of the state; and it is this predicate, with the
\* stage's threshold, that decides the timeout errors of checkTests.
C11_IsTimedOut ==
  /\ \A d \in Thresholds :
       /\ IsTimedOut(state, d, clock) = ((clock - state.Ts) > d)
       /\ (clock - state.Ts = d) => ~IsTimedOut(state, d, clock)
       /\ (clock < state.Ts) => ~IsTimedOut(state, d, clock)
       /\ IsTimedOut(state, d, clock) =>
            \A e \in Thresholds : e < d => IsTimedOut(state, e, clock)
       /\ \A st \in JobStages :
            IsTimedOut(JobState(st, state.Ts, EmptyParams), d, clock)
              = IsTimedOut(state, d, clock)
  /\ (Did /\ AnsweredNo /\ pre.Stage = JobStage_Started) =>
       ((call.carried = Error_StartupTimeout)
          <=> IsTimedOut(pre, DefaultWaitTime, call.t))
  /\ (Did /\ AnsweredNo /\ pre.Stage = JobStage_Waiting) =>
       ((call.carried = Error_CompletionTimeout)
          <=> IsTimedOut(pre, smokeTestFailureTime, call.t))

\* The timeout test made when exactly the startup timeout had elapsed.
C11_Witness ==
  /\ Did /\ AnsweredNo /\ pre.Stage = JobStage_Started
  /\ call.t - pre.Ts = DefaultWaitTime
  /\ call.carried = Nil
  /\ state.Stage = JobStage_Started

\* What a copy of the JobState struct taken before the call shows after it:
\* Stage and Ts are its own, Params is the map shared with s.state.
Snapshot == JobState(pre.Stage, pre.Ts, call.prior.Params)

\* C15: a copy of the state taken before an Advance call (Stage, Ts and every
\* Params entry) is the same after the call.
C15_SnapshotUnchanged ==
  Did => Snapshot = pre

\* C14: an Advance call invokes the transition primitive at most once, and
\* once when the returned Stage or Ts differs from the input; each invocation
\* writes the new state to the database and hands it to NotifyJob once, so
\* the numbers of states written and of states forwarded both equal the
\* number of transitions, and the last state written is the last returned.
C14_OneWriteOneNotification ==
  /\ Did =>
       /\ Len(call.persisted) <= 1
       /\ Len(call.sent) <= 1
       /\ (call.path = "advance") <=> (Len(call.persisted) = 1)
       /\ (call.path = "advance") <=> (Len(call.sent) = 1)
       /\ (state.Stage # pre.Stage \/ state.Ts # pre.Ts) =>
            /\ call.path = "advance"
            /\ call.persisted = <<state>>
            /\ call.sent = <<state>>
  /\ dbWrites = transitions
  /\ forwarded = transitions
  /\ lastWritten = state

\* A polling call that made no transition, after three calls that did.
C14_Witness ==
  /\ Did /\ call.path = "return"
  /\ transitions = 3 /\ dbWrites = 3 /\ forwarded = 3
  /\ lastWritten = state

\* C17: with Advance called again and again and the clock advancing, a job
\* created at Queued eventually is Failed or Completed, whatever the backend
\* answers.
C17_ReachesTerminal ==
  <>(state.Stage \in {JobStage_Failed, JobStage_Completed})

\* A job that the backend kept answering not-running, failed by the startup
\* timeout.
C17_Witness ==
  /\ Did /\ AnsweredNo /\ pre.Stage = JobStage_Started
  /\ Len(launches) = 1
  /\ call.carried = Error_StartupTimeout
  /\ state.Stage = JobStage_Failed

AllowedSteps ==
  { <<JobStage_Queued, JobStage_Dequeued>>, <<JobStage_Dequeued, JobStage_Started>>,
    <<JobStage_Started, JobStage_Waiting>>, <<JobStage_Waiting, JobStage_Completed>>,
    <<JobStage_Dequeued, JobStage_Failed>>, <<JobStage_Started, JobStage_Failed>>,
    <<JobStage_Waiting, JobStage_Failed>> }

\* C18: every change of Stage of a job created at Queued is one step along
\* Queued, Dequeued, Started, Waiting, Completed, or a step to Failed from
\* Dequeued, Started or Waiting.
C18_StagePath ==
  (Did /\ state.Stage # pre.Stage) => <<pre.Stage, state.Stage>> \in AllowedSteps

Launched == Len(launches) = 1 /\ launches[1].err = Nil

\* C20: over the life of a job created at Queued LaunchTask is called at most
\* once, CheckTask is called only after a launch that succeeded and with the
\* task id that launch returned, and a job in Started or Waiting holds that
\* id in Params.
C20_OneLaunchOneTask ==
  /\ Len(launches) <= 1
  /\ \A i \in 1..Len(call.backend) :
       call.backend[i].op = "CheckTask" =>
         Launched /\ call.backend[i].id = launches[1].id
  /\ state.Stage \in {JobStage_Started, JobStage_Waiting} =>
       /\ Launched
       /\ HasParam(state.Params, JobParam_Id)
       /\ state.Params[JobParam_Id] = launches[1].id

\* A CheckTask call made in Waiting, for the second of the task ids.
C20_Witness ==
  /\ Did /\ pre.Stage = JobStage_Waiting
  /\ Len(call.backend) = 1 /\ call.backend[1].op = "CheckTask"
  /\ Launched /\ launches[1].id = "task-2"
  /\ call.backend[1].id = "task-2"

\* ------------------------------------------------ registry and notifications
\* The predicates tried on the registry.
Matchers ==
  { [kind |-> "all"] } \cup
  { ActiveOfType(t) : t \in JobTypes } \cup
  { [kind |-> "id", id |-> i] : i \in RegIds } \cup
  { [kind |-> "notId", id |-> i] : i \in RegIds } \cup
  { [kind |-> "stage", stage |-> st] : st \in JobStages }

\* C12: after any sequence of recorded transitions, JobsByMatcher(p) returns
\* exactly the latest recorded state of every registered job that satisfies
\* p -- none that fails p, none that satisfies p left out, one entry per Id
\* at most -- also when p excludes an Id.
C12_ExactlyTheLatest ==
  \A m \in Matchers :
    LET res == JobsByMatcher(registry, m) IN
    /\ res = { recorded[i] : i \in { k \in DOMAIN recorded : Matches(m, recorded[k]) } }
    /\ \A a, b \in res : a.Id = b.Id => a = b

\* Both jobs are registered, job-1 has been recorded again since it was
\* created, and a query that excludes job-1 returns job-2's state alone.
C12_Witness ==
  /\ DOMAIN recorded = RegIds
  /\ done.kind = "record"
  /\ done.job = JobIds[1]
  /\ recorded[JobIds[1]].Stage = JobStage_Waiting
  /\ recorded[JobIds[2]].Stage = JobStage_Started
  /\ JobsByMatcher(registry, [kind |-> "notId", id |-> JobIds[1]])
       = { recorded[JobIds[2]] }

\* C13: with the jobs advanced concurrently, one transition in flight per Id,
\* a query a job makes once its transition is recorded -- before its
\* notification is generated, or while it is -- returns its new state; every
\* Id shows the state written last for it.
C13_ReadYourWrites ==
  /\ \A j \in DOMAIN inflight :
       JobsByMatcher(registry, [kind |-> "id", id |-> j]) = { inflight[j].state }
  /\ done.kind = "notify" => done.own = { done.state }
  /\ \A i \in DOMAIN recorded : i \in DOMAIN registry /\ registry[i] = recorded[i]

\* job-1's notification is generated while job-2's transition is in flight,
\* for a state recorded over an earlier one.
C13_Witness ==
  /\ done.kind = "notify"
  /\ done.job = JobIds[1]
  /\ done.state.Stage = JobStage_Started
  /\ JobIds[2] \in DOMAIN inflight
  /\ inflight[JobIds[2]].state.Stage = JobStage_Failed
  /\ done.own = { done.state }

\* The fields of a notification that list the jobs in progress.
InProgress(fields) ==
  SelectSeq(fields, LAMBDA f : f.Name \notin {NotifField_JobId, NotifField_CommitHashes})

\* The jobs other than j the registry holds as active and of type t.
OtherActive(j, t) ==
  { i \in (DOMAIN registry) \ {j} :
      registry[i].Type = t /\ registry[i].Stage \notin Terminal }

\* C19: the jobs in progress of a notification generated for job J never
\* list J, list under a job type only registry entries that are active and of
\* that type, and have a field for a job type only if a job other than J is
\* active for it.
C19_JobsInProgress ==
  done.kind = "notify" =>
    \A k \in 1..Len(done.attempts) :
      LET fs == InProgress(done.attempts[k].fields) IN
      \A f \in 1..Len(fs) :
        /\ fs[f].Name \in JobTypes
        /\ OtherActive(done.job, fs[f].Name) # {}
        /\ \A l \in 1..Len(fs[f].Value) :
             LET line == fs[f].Value[l] IN
             /\ line.Id # done.job
             /\ line.Id \in OtherActive(done.job, fs[f].Name)
             /\ line.Stage = registry[line.Id].Stage

\* A notification for job-1, itself active, that lists job-2, active and of
\* job-1's type, and nothing else.
C19_Witness ==
  /\ done.kind = "notify"
  /\ done.job = JobIds[1]
  /\ done.state.Type = JobType_TestSmoke
  /\ done.state.Stage = JobStage_Waiting
  /\ Len(done.attempts) > 0
  /\ LET fs == InProgress(done.attempts[1].fields) IN
     /\ Len(fs) = 1
     /\ fs[1].Name = JobType_TestSmoke
     /\ fs[1].Value = << Line(registry[JobIds[2]]) >>

\* The channels of a notification that are set.
SetChannels(channels) == SelectSeq(channels, LAMBDA c : c # Nil)

\* C16: if persisting or notifying the new state fails inside the transition
\* primitive, a failed send included, the new state is still returned, the
\* stage decision is not rolled back, and every channel of the state that is
\* set is still attempted.
C16_FailOpen ==
  done.kind = "notify" =>
    /\ done.returns
    /\ done.returned = done.state
    /\ registry[done.job] = done.state
    /\ [k \in 1..Len(done.attempts) |-> done.attempts[k].channel]
         = SetChannels(done.channels)
====
